---------------------------- MODULE Spec2Model ----------------------------
(***************************************************************************)
(* Lease-based leader election of node-red-contrib-cluster-leader          *)
(* (src/cluster-leader.js).  Every replica runs one ClusterLeaderNode; the *)
(* replicas share one Redis/Valkey key (lockKey) whose value is the        *)
(* hostname of the holder and whose expiry is managed by the store.        *)
(*                                                                         *)
(* Granularity.  JavaScript runs a handler without interruption between    *)
(* two awaits, and every store command takes effect atomically at the      *)
(* store.  One action of the model is: the effect of one store command,    *)
(* its reply, and the handler's code up to the point where the next        *)
(* command has been issued (or the handler has returned).  Between two     *)
(* actions of one handler anything else may run: other handlers of the     *)
(* same process, other processes, expiry of the key.                       *)
(*                                                                         *)
(* The replies to the commands that one client has in flight may arrive in *)
(* any order: the model does not keep the order in which they were issued. *)
(*                                                                         *)
(* Identities are the numbers 1..NumProcs; 0 is null (no value).  One time *)
(* unit is one second.                                                     *)
(***************************************************************************)
EXTENDS Integers, FiniteSets, Bags

\* ----------------------------------------------------------------- bounds
NumProcs == 2        \* replicas (distinct hostnames)
MaxTriggers == 2     \* input handlers of one process that may be in flight
ConfigTTL == 2       \* config.lockTTL (seconds) of the runs with one setting
MaxConfigTTL == 3    \* largest config.lockTTL of the runs over all settings

DefaultTTL == 10     \* line 18: the TTL used when config.lockTTL is 0 or NaN
HeartbeatPeriod == 2 \* line 145: the monitor's interval, 2000 ms

Procs == 1..NumProcs
Null == 0

VARIABLES
    holder,          \* store: value of lockKey, Null when the key is absent
    ttl,             \* store: remaining expiry of lockKey, 0 when absent
    isConnected,     \* [Procs -> BOOLEAN], the flag of line 24
    clientOpen,      \* [Procs -> BOOLEAN], redisClient not yet quit
    alive,           \* [Procs -> BOOLEAN], the process still runs
    initpc,          \* [Procs -> position of initRedis]
    statusInterval,  \* [Procs -> BOOLEAN], the monitor's timer is set
    tickpc,          \* [Procs -> position of the monitor tick in flight]
    closepc,         \* [Procs -> position of the close handler]
    doneCalls,       \* [Procs -> number of calls of done() by the close handler]
    config,          \* config.lockTTL, the same on every replica
    timer,           \* [Procs -> seconds since the interval timer was set or fired]
    status,          \* [Procs -> last node.status(...)]
    inflight,        \* [Procs -> bag of the input handlers in flight]
    last             \* what the step just taken let the outside observe

vars == <<holder, ttl, isConnected, clientOpen, alive, initpc,
          statusInterval, tickpc, closepc, doneCalls, config, timer,
          status, inflight, last>>

store == <<holder, ttl>>
life == <<clientOpen, alive, initpc, statusInterval, tickpc, closepc,
          doneCalls, config, timer>>

\* line 18: parseInt(config.lockTTL) || 10, in seconds; one time unit of the
\* model is one second
parseLockTTL(c) == IF c = 0 THEN DefaultTTL ELSE c
lockTTL == parseLockTTL(config)

\* ---------------------------------------------------------------- records
\* node.status({fill, shape, text}): the state shown and the leader named
Status(state, leader) == [state |-> state, leader |-> leader]
NoStatus == Status("", Null)

\* the msg passed to node.send, NoMsg for the null element of the array
NoMsg == [isLeader |-> FALSE, leaderHost |-> Null, followerHost |-> Null, sent |-> FALSE]
Msg(isLeader, leaderHost, followerHost) ==
    [isLeader |-> isLeader, leaderHost |-> leaderHost,
     followerHost |-> followerHost, sent |-> TRUE]

\* an input handler in flight: the command it waits for, the store commands
\* it has performed, the conditional sets among them, and whether one of
\* them was rejected or the connection was found down on the way
Started == [pc |-> "set", nops |-> 0, nset |-> 0, failed |-> FALSE]

\* the observable result of one step: nothing, or the end of an input
\* handler (kind leader / follower / error / dropped, with both elements of
\* the array given to node.send), or the DEL of the close handler
NoEvent == [kind |-> "none", by |-> Null, port1 |-> NoMsg, port2 |-> NoMsg,
            nops |-> 0, nset |-> 0, failed |-> FALSE, victim |-> Null]
Ended(kind, p, m1, m2, h) ==
    [kind |-> kind, by |-> p, port1 |-> m1, port2 |-> m2,
     nops |-> h.nops, nset |-> h.nset, failed |-> h.failed, victim |-> Null]
Deleted(p, v) == [NoEvent EXCEPT !.kind = "del", !.by = p, !.victim = v]

\* a step of the monitor: the interval callback ran ("tick"), or the GET or
\* the EXPIRE of a tick was served or rejected
TickKinds == {"tick", "tickget", "tickexpire"}
Ticked(kind, p, ok) == [NoEvent EXCEPT !.kind = kind, !.by = p, !.failed = ~ok]

\* ------------------------------------------------------------------ store
\* A command of process p can be served only over an open, connected client
Reachable(p) == alive[p] /\ clientOpen[p] /\ isConnected[p]

\* SET without NX: the value is written over an existing lease
StoreSetNX_Overwrite(p) ==
    /\ holder' = p
    /\ ttl' = lockTTL

\* SET NX without EX: the key is created with no expiry
StoreSetNX_NoEX(p) ==
    IF holder = Null
    THEN /\ holder' = p
         /\ ttl' = 0
    ELSE UNCHANGED store

\* SET lockKey hostname EX lockTTL NX, applied: the reply is OK iff absent
StoreSetNX(p) ==
    IF holder = Null
    THEN /\ holder' = p
         /\ ttl' = lockTTL
    ELSE UNCHANGED store

\* SET ... EX seconds: the store rejects the command unless seconds > 0
StoreAcceptsEX == lockTTL > 0

\* an EXPIRE that leaves the remaining expiry as it is
StoreExpire_NoReset == UNCHANGED store

\* EXPIRE lockKey lockTTL, applied: resets the expiry of an existing key
StoreExpire ==
    IF holder # Null
    THEN /\ ttl' = lockTTL
         /\ UNCHANGED holder
    ELSE UNCHANGED store

\* DEL lockKey, applied
StoreDel ==
    /\ holder' = Null
    /\ ttl' = 0

\* One time unit passes at the store; the key is removed when its expiry
\* runs out
StoreSecond ==
    IF holder # Null /\ ttl > 0
    THEN /\ ttl' = ttl - 1
         /\ holder' = IF ttl = 1 THEN Null ELSE holder
    ELSE UNCHANGED store

TimePasses ==
    /\ holder # Null /\ ttl > 0
    /\ StoreSecond
    /\ last' = NoEvent
    /\ UNCHANGED <<isConnected, life, status, inflight>>

\* ------------------------------------------------------------------- Init
InitWith(c) ==
    /\ holder = Null
    /\ ttl = 0
    /\ isConnected = [p \in Procs |-> FALSE]
    /\ clientOpen = [p \in Procs |-> TRUE]
    /\ alive = [p \in Procs |-> TRUE]
    /\ initpc = [p \in Procs |-> "connecting"]
    /\ statusInterval = [p \in Procs |-> FALSE]
    /\ tickpc = [p \in Procs |-> "idle"]
    /\ closepc = [p \in Procs |-> "none"]
    /\ doneCalls = [p \in Procs |-> 0]
    /\ config = c
    /\ timer = [p \in Procs |-> 0]
    /\ status = [p \in Procs |-> NoStatus]
    /\ inflight = [p \in Procs |-> EmptyBag]
    /\ last = NoEvent

\* every replica configured with lockTTL = ConfigTTL
Init == InitWith(ConfigTTL)

\* the settings of config.lockTTL: negative, zero, and the positive ones
Settings == (0 - 1)..MaxConfigTTL
InitSettings == \E c \in Settings : InitWith(c)

\* ----------------------------------------------------- connection, startup
\* redisClient.on('connect'): the socket is up (first connection or a
\* reconnection of the client)
ConnectEvent(p) ==
    /\ alive[p] /\ clientOpen[p]
    /\ ~isConnected[p]
    /\ isConnected' = [isConnected EXCEPT ![p] = TRUE]
    /\ last' = NoEvent
    /\ UNCHANGED <<store, life, status, inflight>>

\* redisClient.on('error')
ErrorEvent(p) ==
    /\ alive[p] /\ clientOpen[p]
    /\ isConnected[p] \/ status[p] # Status("connection error", Null)
    /\ isConnected' = [isConnected EXCEPT ![p] = FALSE]
    /\ status' = [status EXCEPT ![p] = Status("connection error", Null)]
    /\ last' = NoEvent
    /\ UNCHANGED <<store, life, inflight>>

\* startStatusMonitoring: (re)sets the interval timer
startStatusMonitoring(p) ==
    /\ statusInterval' = [statusInterval EXCEPT ![p] = TRUE]
    /\ timer' = [timer EXCEPT ![p] = 0]

\* initRedis after `await redisClient.connect()`: the promise resolves once
\* the socket is up, or rejects
initRedis(p, ok) ==
    /\ alive[p]
    /\ initpc[p] = "connecting"
    /\ IF ok
       THEN /\ isConnected[p]
            /\ startStatusMonitoring(p)
            /\ initpc' = [initpc EXCEPT ![p] = "ready"]
            /\ UNCHANGED status
       ELSE /\ status' = [status EXCEPT ![p] = Status("connection failed", Null)]
            /\ initpc' = [initpc EXCEPT ![p] = "failed"]
            /\ UNCHANGED <<statusInterval, timer>>
    /\ last' = NoEvent
    /\ UNCHANGED <<store, isConnected, clientOpen, alive, tickpc, closepc,
                   doneCalls, config, inflight>>

\* the process dies: it performs no further step
Crash(p) ==
    /\ alive[p]
    /\ \E q \in Procs \ {p} : alive[q]
    /\ alive' = [alive EXCEPT ![p] = FALSE]
    /\ last' = NoEvent
    /\ UNCHANGED <<store, isConnected, clientOpen, initpc, statusInterval,
                   tickpc, closepc, doneCalls, config, timer, status, inflight>>

\* ---------------------------------------------------------- input handler
\* lines 166-167
LeaderMsg(p) == Msg(TRUE, p, Null)

\* the follower's tags with leaderHost and followerHost exchanged
FollowerMsg_Swapped(p, currentLeader) == Msg(FALSE, p, currentLeader)

\* lines 178-180
FollowerMsg(p, currentLeader) == Msg(FALSE, currentLeader, p)

\* handler h after one more store command, served (ok) or rejected
Counted(h, isSet, ok) ==
    [h EXCEPT !.nops = @ + 1,
              !.nset = IF isSet THEN @ + 1 ELSE @,
              !.failed = @ \/ ~ok]

\* the handlers of p in flight, with h ended or replaced by g
Ends(p, h) == [inflight EXCEPT ![p] = @ (-) SetToBag({h})]
Becomes(p, h, g) == [inflight EXCEPT ![p] = (@ (-) SetToBag({h})) (+) SetToBag({g})]

\* lines 164-174: node.send([msg, null]) and the leader status
SendLeader(p, h, g) ==
    /\ last' = Ended("leader", p, LeaderMsg(p), NoMsg, g)
    /\ status' = [status EXCEPT ![p] = Status("leader", p)]
    /\ inflight' = Ends(p, h)

\* lines 176-187: node.send([null, msg]) and the follower status
SendFollower(p, h, g, currentLeader) ==
    /\ last' = Ended("follower", p, NoMsg, FollowerMsg(p, currentLeader), g)
    /\ status' = [status EXCEPT ![p] = Status("follower", currentLeader)]
    /\ inflight' = Ends(p, h)

\* lines 189-192: the handler's catch
InputFailed(p, h, g) ==
    /\ last' = Ended("error", p, NoMsg, NoMsg, g)
    /\ status' = [status EXCEPT ![p] = Status("error", Null)]
    /\ inflight' = Ends(p, h)

\* refreshLeadership, entered with isLeader = false: with the connection
\* down it returns false at once and the handler issues the follower's GET,
\* otherwise it issues its own GET
refreshLeadership_enter(p, h, g) ==
    /\ inflight' = Becomes(p, h,
                      IF isConnected[p]
                      THEN [g EXCEPT !.pc = "get"]
                      ELSE [g EXCEPT !.pc = "fget", !.failed = TRUE])
    /\ last' = NoEvent
    /\ UNCHANGED status

\* node.on('input'): a trigger arrives; dropped when not connected, else
\* checkLeadership issues its SET NX
Input(p) ==
    /\ alive[p]
    /\ closepc[p] # "done"
    /\ BagCardinality(inflight[p]) < MaxTriggers
    /\ IF ~isConnected[p]
       THEN /\ last' = Ended("dropped", p, NoMsg, NoMsg, Started)
            /\ UNCHANGED inflight
       ELSE /\ inflight' = [inflight EXCEPT ![p] = @ (+) SetToBag({Started})]
            /\ last' = NoEvent
    /\ UNCHANGED <<store, isConnected, life, status>>

\* the handlers of p in flight that wait for the command named by pc
Waiting(p, pc) == {h \in BagToSet(inflight[p]) : h.pc = pc}

\* checkLeadership: the SET NX is served (ok) or rejected
checkLeadership(p, ok) ==
    /\ alive[p]
    /\ \E h \in Waiting(p, "set") :
        LET g == Counted(h, TRUE, ok) IN
        IF ok
        THEN /\ Reachable(p)
             /\ StoreAcceptsEX
             /\ StoreSetNX(p)
             /\ IF holder = Null
                THEN SendLeader(p, h, g)
                ELSE refreshLeadership_enter(p, h, g)
        ELSE /\ refreshLeadership_enter(p, h, g)
             /\ UNCHANGED store
    /\ UNCHANGED <<isConnected, life>>

\* refreshLeadership: its GET is served or rejected
refreshLeadership_get(p, ok) ==
    /\ alive[p]
    /\ ok => Reachable(p)
    /\ \E h \in Waiting(p, "get") :
        LET g == Counted(h, FALSE, ok) IN
        inflight' = Becomes(p, h,
                       IF ok /\ holder = p
                       THEN [g EXCEPT !.pc = "expire"]
                       ELSE [g EXCEPT !.pc = "fget"])
    /\ last' = NoEvent
    /\ UNCHANGED <<store, isConnected, life, status>>

\* refreshLeadership: its EXPIRE is served (the reply is not looked at) or
\* rejected
refreshLeadership_expire(p, ok) ==
    /\ alive[p]
    /\ \E h \in Waiting(p, "expire") :
        LET g == Counted(h, FALSE, ok) IN
        IF ok
        THEN /\ Reachable(p)
             /\ StoreExpire
             /\ SendLeader(p, h, g)
        ELSE /\ inflight' = Becomes(p, h, [g EXCEPT !.pc = "fget"])
             /\ last' = NoEvent
             /\ UNCHANGED <<store, status>>
    /\ UNCHANGED <<isConnected, life>>

\* the follower branch: its GET is served or rejected
FollowerGet(p, ok) ==
    /\ alive[p]
    /\ \E h \in Waiting(p, "fget") :
        LET g == Counted(h, FALSE, ok) IN
        IF ok
        THEN /\ Reachable(p)
             /\ SendFollower(p, h, g, holder)
        ELSE InputFailed(p, h, g)
    /\ UNCHANGED <<store, isConnected, life>>

\* ------------------------------------------------------ heartbeat monitor
\* an interval callback without the check of isConnected
IntervalCallback_NoCheck(p) ==
    /\ tickpc' = [tickpc EXCEPT ![p] = "get"]
    /\ last' = Ticked("tick", p, TRUE)
    /\ UNCHANGED <<store, isConnected, clientOpen, alive, initpc, status,
                   statusInterval, closepc, doneCalls, config, inflight>>

\* the interval callback: with the connection down it only sets the status,
\* otherwise it issues its GET
IntervalCallback(p) ==
    /\ IF ~isConnected[p]
       THEN /\ status' = [status EXCEPT ![p] = Status("disconnected", Null)]
            /\ UNCHANGED tickpc
       ELSE /\ tickpc' = [tickpc EXCEPT ![p] = "get"]
            /\ UNCHANGED status
    /\ last' = Ticked("tick", p, TRUE)
    /\ UNCHANGED <<store, isConnected, clientOpen, alive, initpc,
                   statusInterval, closepc, doneCalls, config, inflight>>

\* the interval callback fires, at any time after the previous tick ended
MonitorTick(p) ==
    /\ alive[p]
    /\ statusInterval[p]
    /\ tickpc[p] = "idle"
    /\ IntervalCallback(p)
    /\ UNCHANGED timer

\* the interval callback fires on schedule, HeartbeatPeriod after the timer
\* was set or fired last
ScheduledTick(p) ==
    /\ alive[p]
    /\ statusInterval[p]
    /\ tickpc[p] = "idle"
    /\ timer[p] = HeartbeatPeriod
    /\ IntervalCallback(p)
    /\ timer' = [timer EXCEPT ![p] = 0]

\* a tick that takes the lease with SET NX when its GET finds no holder
MonitorGet_Acquires(p, ok) ==
    /\ alive[p]
    /\ tickpc[p] = "get"
    /\ ok => Reachable(p)
    /\ IF ok /\ holder = p
       THEN /\ tickpc' = [tickpc EXCEPT ![p] = "expire"]
            /\ UNCHANGED <<status, store>>
       ELSE /\ tickpc' = [tickpc EXCEPT ![p] = "idle"]
            /\ IF ok THEN StoreSetNX(p) ELSE UNCHANGED store
            /\ status' = [status EXCEPT ![p] =
                             IF ~ok THEN Status("error", Null)
                             ELSE IF holder # Null THEN Status("follower", holder)
                             ELSE Status("leader", p)]
    /\ last' = Ticked("tickget", p, ok)
    /\ UNCHANGED <<isConnected, clientOpen, alive, initpc,
                   statusInterval, closepc, doneCalls, config, timer, inflight>>

\* the tick's GET is served or rejected
MonitorGet(p, ok) ==
    /\ alive[p]
    /\ tickpc[p] = "get"
    /\ ok => Reachable(p)
    /\ IF ok /\ holder = p
       THEN /\ tickpc' = [tickpc EXCEPT ![p] = "expire"]
            /\ UNCHANGED status
       ELSE /\ tickpc' = [tickpc EXCEPT ![p] = "idle"]
            /\ status' = [status EXCEPT ![p] =
                             IF ~ok THEN Status("error", Null)
                             ELSE IF holder # Null THEN Status("follower", holder)
                             ELSE Status("no leader", Null)]
    /\ last' = Ticked("tickget", p, ok)
    /\ UNCHANGED <<store, isConnected, clientOpen, alive, initpc,
                   statusInterval, closepc, doneCalls, config, timer, inflight>>

\* the tick's EXPIRE is served or rejected
MonitorExpire(p, ok) ==
    /\ alive[p]
    /\ tickpc[p] = "expire"
    /\ IF ok
       THEN /\ Reachable(p)
            /\ StoreExpire
            /\ status' = [status EXCEPT ![p] = Status("leader", p)]
       ELSE /\ status' = [status EXCEPT ![p] = Status("error", Null)]
            /\ UNCHANGED store
    /\ tickpc' = [tickpc EXCEPT ![p] = "idle"]
    /\ last' = Ticked("tickexpire", p, ok)
    /\ UNCHANGED <<isConnected, clientOpen, alive, initpc, statusInterval,
                   closepc, doneCalls, config, timer, inflight>>

\* ---------------------------------------------------------- close handler
\* line 214: done(), the end of the close handler
done(p) ==
    /\ closepc' = [closepc EXCEPT ![p] = "done"]
    /\ doneCalls' = [doneCalls EXCEPT ![p] = @ + 1]

\* node.on('close'): clears the timer; with a connected client it issues
\* the GET of the release, otherwise it calls done()
Close(p) ==
    /\ alive[p]
    /\ closepc[p] = "none"
    /\ statusInterval' = [statusInterval EXCEPT ![p] = FALSE]
    /\ IF isConnected[p]
       THEN /\ closepc' = [closepc EXCEPT ![p] = "get"]
            /\ UNCHANGED doneCalls
       ELSE done(p)
    /\ last' = NoEvent
    /\ UNCHANGED <<store, isConnected, clientOpen, alive, initpc, tickpc,
                   config, timer, status, inflight>>

\* the release's GET: DEL follows when it read this hostname, else quit;
\* a rejection goes to the catch and done()
CloseGet(p, ok) ==
    /\ alive[p]
    /\ closepc[p] = "get"
    /\ ok => Reachable(p)
    /\ IF ok
       THEN /\ closepc' = [closepc EXCEPT ![p] =
                              IF holder = p THEN "del" ELSE "quit"]
            /\ UNCHANGED doneCalls
       ELSE done(p)
    /\ last' = NoEvent
    /\ UNCHANGED <<store, isConnected, clientOpen, alive, initpc,
                   statusInterval, tickpc, config, timer, status, inflight>>

\* the release's DEL
CloseDel(p, ok) ==
    /\ alive[p]
    /\ closepc[p] = "del"
    /\ IF ok
       THEN /\ Reachable(p)
            /\ StoreDel
            /\ last' = Deleted(p, holder)
            /\ closepc' = [closepc EXCEPT ![p] = "quit"]
            /\ UNCHANGED doneCalls
       ELSE /\ last' = NoEvent
            /\ done(p)
            /\ UNCHANGED store
    /\ UNCHANGED <<isConnected, clientOpen, alive, initpc, statusInterval,
                   tickpc, config, timer, status, inflight>>

\* a quit whose rejection escapes the close handler: done() is not reached
CloseQuit_Throws(p, ok) ==
    /\ alive[p]
    /\ closepc[p] = "quit"
    /\ ok => Reachable(p)
    /\ clientOpen' = [clientOpen EXCEPT ![p] = ~ok]
    /\ IF ok
       THEN done(p)
       ELSE /\ closepc' = [closepc EXCEPT ![p] = "thrown"]
            /\ UNCHANGED doneCalls
    /\ last' = NoEvent
    /\ UNCHANGED <<store, isConnected, alive, initpc, statusInterval, tickpc,
                   config, timer, status, inflight>>

\* redisClient.quit(), then done()
CloseQuit(p, ok) ==
    /\ alive[p]
    /\ closepc[p] = "quit"
    /\ ok => Reachable(p)
    /\ clientOpen' = [clientOpen EXCEPT ![p] = ~ok]
    /\ done(p)
    /\ last' = NoEvent
    /\ UNCHANGED <<store, isConnected, alive, initpc, statusInterval, tickpc,
                   config, timer, status, inflight>>

\* --------------------------------------------------------- specifications
\* the steps of the input handlers, each store command served (oks = {TRUE})
\* or possibly rejected (oks = BOOLEAN)
Election(oks) ==
    \E p \in Procs :
        \/ Input(p)
        \/ \E ok \in oks : checkLeadership(p, ok)
        \/ \E ok \in oks : refreshLeadership_get(p, ok)
        \/ \E ok \in oks : refreshLeadership_expire(p, ok)
        \/ \E ok \in oks : FollowerGet(p, ok)

Monitor(oks) ==
    \E p \in Procs :
        \/ MonitorTick(p)
        \/ \E ok \in oks : MonitorGet(p, ok)
        \/ \E ok \in oks : MonitorExpire(p, ok)

Shutdown(oks) ==
    \E p \in Procs :
        \/ Close(p)
        \/ \E ok \in oks : CloseGet(p, ok)
        \/ \E ok \in oks : CloseDel(p, ok)
        \/ \E ok \in oks : CloseQuit(p, ok)

Startup(oks) ==
    \E p \in Procs :
        \/ ConnectEvent(p)
        \/ \E ok \in oks : initRedis(p, ok)

\* time passes while the lease has more than one unit left: no expiry
TimePassesAlive ==
    /\ ttl > 1
    /\ TimePasses

\* First acquisition: every command is served, nothing expires, nobody
\* shuts down
NextAcquire ==
    \/ Startup({TRUE})
    \/ Election({TRUE})

SpecAcquire == Init /\ [][NextAcquire]_vars

\* Live holders: elections and heartbeats, every command served, time
\* passes but the lease never runs out
NextLive ==
    \/ Startup({TRUE})
    \/ Election({TRUE})
    \/ Monitor({TRUE})
    \/ TimePassesAlive

SpecLive == Init /\ [][NextLive]_vars

\* Elections under connection loss, rejected commands and expiry
Next ==
    \/ \E p \in Procs : ConnectEvent(p)
    \/ \E p \in Procs : ErrorEvent(p)
    \/ Election(BOOLEAN)
    \/ TimePasses

Spec == Init /\ [][Next]_vars

\* Orderly shutdown racing elections and expiry, every command served
NextRelease ==
    \/ \E p \in Procs : ConnectEvent(p)
    \/ Election({TRUE})
    \/ Shutdown({TRUE})
    \/ TimePasses

SpecRelease == Init /\ [][NextRelease]_vars

\* A process may die; the others go on with elections and heartbeats
NextFailover ==
    \/ Startup({TRUE})
    \/ Election({TRUE})
    \/ Monitor({TRUE})
    \/ \E p \in Procs : Crash(p)
    \/ TimePasses

SpecFailover == Init /\ [][NextFailover]_vars


\* Failover under fairness.  A process may die; the others go on with
\* elections, every command served.  The event loop and the store give the
\* fairness: time passes, a client that is down connects, triggers keep
\* arriving, and a command in flight is eventually served
NextFair ==
    \/ \E p \in Procs : ConnectEvent(p)
    \/ Election({TRUE})
    \/ \E p \in Procs : Crash(p)
    \/ TimePasses

FairFailover ==
    /\ Init /\ [][NextFair]_vars
    /\ WF_vars(TimePasses)
    /\ \A p \in Procs :
          /\ WF_vars(ConnectEvent(p))
          /\ WF_vars(Input(p))
          /\ WF_vars(\/ checkLeadership(p, TRUE)
                     \/ refreshLeadership_get(p, TRUE)
                     \/ refreshLeadership_expire(p, TRUE)
                     \/ FollowerGet(p, TRUE))

\* a trigger that arrives while no other input handler is in flight
LoneInput(p) ==
    /\ \A q \in Procs : inflight[q] = EmptyBag
    /\ Input(p)

\* the steps of the input handlers, one handler at a time, every command
\* served
LoneElection ==
    \E p \in Procs :
        \/ LoneInput(p)
        \/ checkLeadership(p, TRUE)
        \/ refreshLeadership_get(p, TRUE)
        \/ refreshLeadership_expire(p, TRUE)
        \/ FollowerGet(p, TRUE)

\* The monitor under connection loss, rejected commands and expiry
NextMonitor ==
    \/ Startup(BOOLEAN)
    \/ \E p \in Procs : ErrorEvent(p)
    \/ LoneElection
    \/ Monitor(BOOLEAN)
    \/ TimePasses

SpecMonitor == Init /\ [][NextMonitor]_vars

\* Start, monitor and shutdown in any order, every command served
NextLifecycle ==
    \/ Startup(BOOLEAN)
    \/ LoneElection
    \/ Monitor({TRUE})
    \/ Shutdown({TRUE})

SpecLifecycle == Init /\ [][NextLifecycle]_vars

\* Shutdown under fairness: every store call of the close handler
\* eventually resolves or rejects
NextShutdown ==
    \/ Startup(BOOLEAN)
    \/ \E p \in Procs : ErrorEvent(p)
    \/ LoneElection
    \/ Shutdown(BOOLEAN)

FairShutdown ==
    /\ Init /\ [][NextShutdown]_vars
    /\ \A p \in Procs :
          /\ WF_vars(\E ok \in BOOLEAN : CloseGet(p, ok))
          /\ WF_vars(\E ok \in BOOLEAN : CloseDel(p, ok))
          /\ WF_vars(\E ok \in BOOLEAN : CloseQuit(p, ok))

\* Every setting of config.lockTTL: start and elections, a command served
\* or rejected
NextSettings ==
    \/ Startup({TRUE})
    \/ Election(BOOLEAN)

SpecSettings == InitSettings /\ [][NextSettings]_vars

\* Timed runs: one step of SecondPasses is one second.  The monitor fires
\* on schedule, every command is served within the second in which it is
\* issued, and the holder of the lease receives no trigger
IdleInput(p) ==
    /\ holder # p
    /\ Input(p)

SecondPasses ==
    /\ \A p \in Procs :
          /\ statusInterval[p] => timer[p] < HeartbeatPeriod
          /\ isConnected[p] => initpc[p] # "connecting"
          /\ tickpc[p] = "idle"
          /\ inflight[p] = EmptyBag
    /\ StoreSecond
    /\ timer' = [p \in Procs |->
                    IF statusInterval[p] THEN timer[p] + 1 ELSE timer[p]]
    /\ last' = NoEvent
    /\ UNCHANGED <<isConnected, clientOpen, alive, initpc, statusInterval,
                   tickpc, closepc, doneCalls, config, status, inflight>>

NextHeartbeat ==
    \/ Startup({TRUE})
    \/ \E p \in Procs :
          \/ IdleInput(p)
          \/ checkLeadership(p, TRUE)
          \/ refreshLeadership_get(p, TRUE)
          \/ refreshLeadership_expire(p, TRUE)
          \/ FollowerGet(p, TRUE)
    \/ \E p \in Procs :
          \/ ScheduledTick(p)
          \/ MonitorGet(p, TRUE)
          \/ MonitorExpire(p, TRUE)
    \/ SecondPasses

SpecHeartbeat == InitSettings /\ [][NextHeartbeat]_vars

\* ------------------------------------------------------------------ claims
Verdicts == {"leader", "follower", "error"}
HasVerdict(p) == status[p].state \in {"leader", "follower"}
Leaders == {p \in Procs : status[p].state = "leader"}

\* C1: first acquisition is mutually exclusive.  With every command served
\* and no expiry or release (SpecAcquire; the only writers of the status
\* are the election checks, so status[p] is the verdict of p's latest
\* check): every check that ends yields Leading iff its identity holds the
\* lease, and otherwise Following tagged with the holder; at most one
\* identity has a Leading verdict, and once every identity has a verdict
\* exactly one has, the others are Following that one.
C1_FirstAcquisition ==
    /\ last.kind \in Verdicts =>
          /\ holder # Null
          /\ IF last.by = holder
             THEN last.kind = "leader" /\ last.port1.leaderHost = holder
             ELSE last.kind = "follower" /\ last.port2.leaderHost = holder
    /\ \A p \in Procs :
          /\ status[p].state = "leader" => holder = p
          /\ status[p].state = "follower" =>
                holder # p /\ status[p].leader = holder
    /\ (\A p \in Procs : HasVerdict(p)) => Cardinality(Leaders) = 1

\* every identity has a verdict, the last one given to a loser of the race
C1_Witness ==
    /\ \A p \in Procs : HasVerdict(p)
    /\ last.kind = "follower"
    /\ last.nops = 3

\* C2: every Leading verdict is backed by the lease: in the state in which
\* the leader-path output is emitted (the state right after the SET NX or
\* the EXPIRE took effect) the lease exists and holds the emitter's identity.
C2_LeadingBacked ==
    last.kind = "leader" => holder = last.by

\* C3: no flapping for a live holder.  With every command served and the
\* lease never running out (SpecLive): a check of the identity that holds
\* the lease ends Leading, without a rejected command, and leaves the
\* remaining expiry at the full TTL, whatever other checks and heartbeat
\* ticks of the same process are in flight.
C3_NoFlapping ==
    (last.kind \in Verdicts /\ holder = last.by) =>
        /\ last.kind = "leader"
        /\ ~last.failed
        /\ ttl = lockTTL

\* a renewal (SET NX refused, GET, EXPIRE) ends Leading while another check
\* of the same process and its heartbeat's EXPIRE are in flight
C3_Witness ==
    /\ last.kind = "leader"
    /\ last.nops = 3
    /\ BagCardinality(inflight[last.by]) >= 1
    /\ tickpc[last.by] = "expire"

\* C4: bounded failover latency.  The expiry is lockTTL at the holder's
\* acquisition or renewal and TimePasses counts it down, so the lease of a
\* holder that has stopped is gone within lockTTL iff no step raises its
\* remaining expiry: every step leaves a dead holder's lease with no more
\* time than it had, or removes it.
C4_BoundedFailover ==
    [][\A x \in Procs :
          (~alive[x] /\ holder = x) =>
              \/ holder' = Null
              \/ holder' = x /\ ttl' <= ttl]_vars

\* C5: automatic failover.  Whenever a dead process holds the lease, some
\* other process eventually ends a check Leading.
C5_AutoFailover ==
    \A x \in Procs :
        (~alive[x] /\ holder = x) ~> (last.kind = "leader" /\ last.by # x)

\* a process that died as leader, and another one that ends a check Leading
\* by its own conditional set
C5_Witness ==
    /\ last.kind = "leader"
    /\ last.nops = 1
    /\ holder = last.by
    /\ \E x \in Procs :
          ~alive[x] /\ x # last.by /\ status[x].state = "leader"

\* C6: the release's DEL removes only the releaser's own lease: the value
\* it removes is the releaser's identity (or the key was absent), and the
\* key is absent afterwards.
C6_ReleaseOwnLease ==
    last.kind = "del" => (last.victim \in {Null, last.by} /\ holder = Null)

\* C7: a trigger that arrives with the connection down is dropped: no store
\* command, no output on either path, and the status after it is a
\* disconnected one.
C7_DroppedWhenDown ==
    last.kind = "dropped" =>
        /\ last.nops = 0
        /\ ~last.port1.sent /\ ~last.port2.sent
        /\ status[last.by].state \in
              {"disconnected", "connection error", "connection failed"}

\* C8: a check one of whose commands was rejected, or that found the
\* connection down on its way, gives no verdict: no output on either path
\* and the status is error.
C8_FailureIsNoVerdict ==
    (last.kind \in Verdicts /\ last.failed) =>
        /\ ~last.port1.sent /\ ~last.port2.sent
        /\ status[last.by].state = "error"

\* C9: one verdict and one route per trigger: a handler performs at most one
\* conditional set and at most four store commands, emits on at most one
\* path, tags a leader-path message {isLeader: true, leaderHost: self} and
\* a follower-path message {isLeader: false, followerHost: self}; a handler
\* that ends in its catch or is dropped emits nothing.
C9_SingleVerdict ==
    /\ \A p \in Procs : \A h \in BagToSet(inflight[p]) :
          h.nset <= 1 /\ h.nops <= 3
    /\ last.nset <= 1 /\ last.nops <= 4
    /\ ~(last.port1.sent /\ last.port2.sent)
    /\ last.port1.sent =>
          /\ last.kind = "leader"
          /\ last.port1.isLeader
          /\ last.port1.leaderHost = last.by
    /\ last.port2.sent =>
          /\ last.kind = "follower"
          /\ ~last.port2.isLeader
          /\ last.port2.followerHost = last.by
    /\ last.kind = "leader" => last.port1.sent
    /\ last.kind = "follower" => last.port2.sent
    /\ last.kind \in {"error", "dropped", "none", "del"} =>
          ~last.port1.sent /\ ~last.port2.sent

\* the longest handler: SET NX refused, GET, EXPIRE rejected, follower GET
C9_Witness ==
    /\ last.kind = "follower"
    /\ last.nops = 4
    /\ last.port2.leaderHost # last.by

\* C10: a follower-path output names another participant as leader, never
\* the emitter itself and never nobody.
C10_FollowerNamesOther ==
    last.kind = "follower" =>
        /\ last.port2.leaderHost # Null
        /\ last.port2.leaderHost # last.by

\* C11: the heartbeat monitor never acquires.  No step of a monitor tick
\* changes the value of the lease (it neither creates nor deletes nor
\* rewrites it); a step of a tick changes the remaining expiry only as the
\* tick's EXPIRE, which sets it to the full TTL; and a tick goes on to its
\* EXPIRE only in the step in which its GET read its own identity, so a
\* tick that reads another identity or no holder leaves the store as it is.
C11_MonitorNeverAcquires ==
    [][\A p \in Procs :
          (last'.kind \in TickKinds /\ last'.by = p) =>
              /\ holder' = holder
              /\ ttl' # ttl =>
                    /\ last'.kind = "tickexpire"
                    /\ tickpc[p] = "expire"
                    /\ ttl' = lockTTL
              /\ tickpc'[p] = "expire" => holder = p
              /\ last'.kind \in {"tick", "tickget"} => UNCHANGED store]_vars

\* a tick's EXPIRE was served for the holder and left the full TTL, the
\* holder having been idle (no input handler in flight)
C11_Witness ==
    /\ last.kind = "tickexpire"
    /\ ~last.failed
    /\ holder = last.by
    /\ ttl = lockTTL
    /\ status[last.by] = Status("leader", last.by)
    /\ inflight[last.by] = EmptyBag

\* C12: a tick that runs with the connection down sets the status to
\* disconnected, issues no command and leaves the store as it is; a tick one
\* of whose commands is rejected sets the status to error, leaves the store
\* as it is and ends; no step of a tick clears the interval timer, so later
\* ticks still run.
C12_TickContained ==
    [][\A p \in Procs :
          (last'.kind \in TickKinds /\ last'.by = p) =>
              /\ (last'.kind = "tick" /\ ~isConnected[p]) =>
                    /\ status'[p] = Status("disconnected", Null)
                    /\ tickpc'[p] = "idle"
                    /\ UNCHANGED store
              /\ last'.failed =>
                    /\ status'[p] = Status("error", Null)
                    /\ tickpc'[p] = "idle"
                    /\ UNCHANGED store
              /\ statusInterval'[p] = statusInterval[p]]_vars

\* the EXPIRE of the holder's tick was rejected: the status is error, the
\* lease is as it was and the timer is still set
C12_Witness ==
    /\ last.kind = "tickexpire"
    /\ last.failed
    /\ holder = last.by
    /\ ttl < lockTTL
    /\ status[last.by] = Status("error", Null)
    /\ statusInterval[last.by]
    /\ tickpc[last.by] = "idle"

\* C13: shutdown always completes.  The close handler calls done() at most
\* once, and once it has started it eventually has called done() exactly
\* once, whatever the lifecycle state in which it starts and whether its
\* GET, DEL and quit are served or rejected.
C13_ShutdownCompletes ==
    /\ [](\A p \in Procs : doneCalls[p] <= 1)
    /\ \A p \in Procs : (closepc[p] # "none") ~> (doneCalls[p] = 1)

\* a close handler that has called done() after a rejected command of its
\* release: the lease of the closed process is still there
C13_Witness ==
    \E p \in Procs :
        /\ doneCalls[p] = 1
        /\ clientOpen[p]
        /\ initpc[p] = "ready"
        /\ holder = p

\* C14: no dangling lease survives an orderly shutdown: once the close
\* handler of a process has completed with its quit served, the lease does
\* not hold that process's identity.
C14_NoDanglingLease ==
    \A p \in Procs :
        (closepc[p] = "done" /\ ~clientOpen[p]) => holder # p

\* C15: a non-positive configured TTL is rejected at startup: with
\* config.lockTTL <= 0 no node gets ready, starts its monitor or has an
\* input handler issue a command; whatever the setting, a SET NX or EXPIRE
\* in flight carries a positive TTL.
C15_NonPositiveTTLRejected ==
    /\ config <= 0 =>
          \A p \in Procs :
              /\ initpc[p] # "ready"
              /\ ~statusInterval[p]
              /\ inflight[p] = EmptyBag
    /\ (\E p \in Procs : Waiting(p, "set") \cup Waiting(p, "expire") # {}) =>
          lockTTL > 0

\* C16: the heartbeat cadence keeps an idle leader alive: whatever the
\* setting of the TTL, no step takes the lease from a holder that is alive
\* and connected, has its monitor running on schedule and receives no
\* trigger.
C16_IdleLeaderKeptAlive ==
    [][\A p \in Procs :
          (holder = p /\ Reachable(p) /\ statusInterval[p]) =>
              holder' = p]_vars

C18_StaleRefreshNoOp ==
    [][\A p \in Procs :
          (/\ last'.by = p
           /\ last'.kind \in {"leader", "tickexpire"}
           /\ holder # Null /\ holder # p) =>
              ttl' = ttl]_vars

\* C19: shutdown stops the monitor for good: the interval callback runs
\* only on a node whose close handler has not started, and the interval
\* timer is never set once it has.
C19_NoTickAfterClose ==
    /\ last.kind = "tick" => closepc[last.by] = "none"
    /\ \A p \in Procs : closepc[p] # "none" => ~statusInterval[p]

=============================================================================
